---- MODULE Spec2Model ----
(***************************************************************************)
(* A state-machine model of pycu_interface: the Device object with its     *)
(* context (cuCtx), its Streams and its registry of pinned host arrays,    *)
(* the Devices container, and the memory handles (Device_Ptr, Unified_Ptr).*)
(* Every handler of the Python code is one action.  The native library     *)
(* (cuda_helpers) is not part of the modelled sources: each native call is *)
(* recorded in the variable calls, in the order the handler issues it,     *)
(* together with the context that is current on the host thread when it is *)
(* issued.                                                                 *)
(***************************************************************************)
EXTENDS Integers, Sequences, FiniteSets, TLC

\* ---------------------------------------------------------------- bounds
NumDev     == 2   \* Device objects of a Devices container
MaxStreams == 1   \* n_streams of a Device ranges over 0..MaxStreams
MaxPins    == 3   \* longest registry of pinned arrays
NumArrs    == 3   \* host arrays that can exist: the caller's and one np.require creates
MaxArgs    == 2   \* most arrays in one require_streamable call
MaxDepth   == 2   \* deepest context stack
HostBytes  == 8   \* nbytes of every host array
NumAddrs   == 2   \* device addresses the native allocator hands out
MaxFrees   == 2   \* most __exit__ calls on one memory handle
MaxPtrs    == 2   \* memory handles the program creates

Dev       == 1..NumDev
DeviceIds == 0..(NumDev - 1)
Arrs      == 1..NumArrs
CallerArrs == 1..(NumArrs - 1)       \* the arrays the caller holds from the start
Addrs     == 1..NumAddrs
Layouts   == {"C", "F", "struct"}   \* C-ordered ndarray, Fortran-ordered ndarray, ctypes object
None      == 0                      \* Python's None (and every falsy byte count)

VARIABLES
    status,         \* [Dev -> {"none", "live", "exited"}]: not constructed, constructed, after __exit__
    id,             \* Device._id
    context,        \* cuCtx._context: the native context handle of the Device, None when not created
    pinned_arrs,    \* Device._pinned_arrs
    streams,        \* Device._streams
    devices,        \* Devices.__devices: the Device objects of the container, in order
    layout,         \* the host arrays that exist and their memory layout
    ptrs,           \* the memory handles (Device_Ptr, Unified_Ptr) and their fields
    ctxStack,       \* native: the context stack of the host thread, top last
    ctxDestroyed,   \* native: the contexts cu_context_destroy was called on
    heap,           \* native: the device addresses that are allocated
    create_pushes,  \* native: whether cu_context_create leaves the new context current
    queues,         \* native: per context, the operations enqueued on each queue and not yet run
    data,           \* for each buffer, the halves of the host vector its content depends on
    pc,             \* the statement each Stream of the sample's loop is at
    views,          \* the double-pointer views (Device_DblPtr) and their fields
    calls,          \* the native calls issued by the last handler, in order
    ret             \* what the last handler was and how it ended

vars == <<status, id, context, pinned_arrs, streams, devices, layout, ptrs,
          ctxStack, ctxDestroyed, heap, create_pushes, queues, data, pc, views, calls, ret>>


\* ------------------------------------------------------- native library
\* The context that is current on the host thread: the top of the stack.
Cur(stack) == IF stack = <<>> THEN None ELSE stack[Len(stack)]

\* One native call: its function, the Device it is issued for, its argument,
\* its byte count, and the context that is current when it is issued.
Call(fn, dev, arg, nbytes, cur) ==
    [fn |-> fn, dev |-> dev, arg |-> arg, nbytes |-> nbytes, cur |-> cur]

\* cu_context_push: the context becomes the current one.
cu_context_push(stack, ctx) == Append(stack, ctx)

\* cu_context_pop: the current context is popped, the previous one is current again.
cu_context_pop(stack) == IF stack = <<>> THEN stack ELSE SubSeq(stack, 1, Len(stack) - 1)

\* cu_context_create: a new context; the driver may leave it current.
cu_context_create(stack, ctx, pushes) == IF pushes THEN Append(stack, ctx) ELSE stack

\* How often a context is on the stack: its pushes not yet matched by a pop.
Pushed(stack, ctx) == Cardinality({i \in 1..Len(stack) : stack[i] = ctx})

\* What a handler reports: its name, the Device, whether it raised, how many
\* messages it printed, and its array arguments (for Device.__exit__: the
\* entries still in the registry when its unpin loop has ended).
Ret(op, dev, raised, reports, args) ==
    [op |-> op, dev |-> dev, raised |-> raised, reports |-> reports, args |-> args]

\* --------------------------------------------------------------- shared
\* get_nbytes: the byte count given, or the array's own when none is given.
get_nbytes(arr, nbytes) == IF nbytes # None THEN nbytes ELSE HostBytes

\* ---------------------------------------------------------------- cuCtx
\* cuCtx.push: cu_context_push(self.context).
cuCtx_push(stack, k) ==
    [stack |-> cu_context_push(stack, k),
     calls |-> <<Call("cu_context_push", k, k, None, Cur(stack))>>]

\* cuCtx.pop: cu_context_pop(self.context).
cuCtx_pop(stack, k) ==
    [stack |-> cu_context_pop(stack),
     calls |-> <<Call("cu_context_pop", k, k, None, Cur(stack))>>]

\* cuCtx.__call__: push, the method, pop.  A method that raises ends the
\* handler at once: the statements after it are not run.
cuCtx_call(stack, k, raises) ==
    LET pu == cuCtx_push(stack, k)
        m  == <<Call("method", k, None, None, Cur(pu.stack))>>
        po == cuCtx_pop(pu.stack, k)
    IN  IF raises
        THEN [stack |-> pu.stack, calls |-> pu.calls \o m, raised |-> TRUE]
        ELSE [stack |-> po.stack, calls |-> pu.calls \o m \o po.calls, raised |-> FALSE]

\* cuCtx.__exit__: cu_context_destroy(self._context).
cuCtx_exit(stack, k) == <<Call("cu_context_destroy", k, k, None, Cur(stack))>>

\* --------------------------------------------------------------- Stream
\* The native handle of a Stream, as cu_stream_create returns it: a pointer
\* that is not null, here the ordinal of the Stream plus one.
StreamPtr(stream) == stream.id + 1

\* Stream.__init__: a native stream and the two library handles bound to it.
Stream_init(k, stream_id, cur) ==
    [stream |-> [device |-> k, id |-> stream_id],
     calls  |-> <<Call("cu_stream_create", k, stream_id, None, cur),
                  Call("cublas", k, stream_id, None, cur),
                  Call("cufft", k, stream_id, None, cur)>>]

\* [Stream(self, i) for i in range(n_streams)]
RECURSIVE Streams_init(_, _, _)
Streams_init(k, n, cur) ==
    IF n = 0 THEN [streams |-> <<>>, calls |-> <<>>]
    ELSE LET r == Streams_init(k, n - 1, cur)
             s == Stream_init(k, n - 1, cur)
         IN  [streams |-> Append(r.streams, s.stream), calls |-> r.calls \o s.calls]

\* The number of Streams of the sample program.
nstreams == 2

\* The native queues of a context: 0 is the default queue, the others are the
\* handles of its streams.
QueueIds == 0..nstreams

\* The buffers of the sample: for the s-th Stream the device allocations s.a
\* and s.b, the host rows c[s] and nrms[s] of the results, and the host rows
\* a[s] and b[s] of the input.
DevA(s)    == s
DevB(s)    == nstreams + s
HostC(s)   == 2 * nstreams + s
HostNrm(s) == 3 * nstreams + s
HostA(s)   == 4 * nstreams + s
HostB(s)   == 5 * nstreams + s
Bufs       == 1..(6 * nstreams)

\* The operation is appended to the queue of the stream handle of context k.
Enqueue(qs, k, c) == [qs EXCEPT ![k][c.dev] = Append(@, c)]

\* What the device does to the buffers when it runs an operation: a copy
\* replaces the content of the destination by that of the source, axpy adds
\* x into y, scal rescales x in place, nrm2 writes the norm of x to the host.
Exec(m, c) ==
    CASE c.fn = "cu_memcpy_h2d_async" -> [m EXCEPT ![c.arg[1]] = m[c.arg[2]]]
      [] c.fn = "cu_memcpy_d2h_async" -> [m EXCEPT ![c.arg[2]] = m[c.arg[1]]]
      [] c.fn = "cublas_axpy"         -> [m EXCEPT ![c.arg[2]] = m[c.arg[1]] \cup m[c.arg[2]]]
      [] c.fn = "cublas_nrm2"         -> [m EXCEPT ![c.arg[2]] = m[c.arg[1]]]
      [] OTHER                        -> m

\* cu_sync_device returns when the work it waits for is done: the work of the
\* default queue of the current context, and with all_tasks that of every
\* queue of the current context.  With no current context it waits for none.
cu_sync_device_returns(qs, cur, all_tasks) ==
    IF cur = None THEN TRUE
    ELSE \A q \in QueueIds : (all_tasks \/ q = 0) => qs[cur][q] = <<>>

\* cu_sync_stream returns when the queue of the stream is empty.
cu_sync_stream_returns(qs, k, stream) == qs[k][stream] = <<>>

\* Stream.memcpy_h2d_async(d_arr, arr): the copy is enqueued on self.stream.
Stream_memcpy_h2d_async(stream, d_arr, arr, cur) ==
    Call("cu_memcpy_h2d_async", StreamPtr(stream), <<d_arr, arr>>, HostBytes, cur)

\* Stream.memcpy_d2h_async with the copy issued on the default queue.
Stream_memcpy_d2h_async_default(stream, arr, d_arr, cur) ==
    Call("cu_memcpy_d2h_async", None, <<d_arr, arr>>, HostBytes, cur)

\* Stream.memcpy_d2h_async(arr, d_arr): the copy is enqueued on self.stream.
Stream_memcpy_d2h_async(stream, arr, d_arr, cur) ==
    Call("cu_memcpy_d2h_async", StreamPtr(stream), <<d_arr, arr>>, HostBytes, cur)

\* s.cublas.axpy(n, alpha, x, y), scal(n, alpha, x) and nrm2(n, x): the
\* routine runs on the stream the cublas object of the Stream was created on.
Stream_cublas(name, stream, args, cur) ==
    Call("cublas_" \o name, StreamPtr(stream), args, None, cur)

\* --------------------------------------------------------------- Device
\* The list without its i-th entry: list.pop(i).
list_pop(reg, i) == SubSeq(reg, 1, i - 1) \o SubSeq(reg, i + 1, Len(reg))

\* Device.host_pin: the native pin, then the array is appended to the registry.
host_pin(reg, k, arr, nbytes, cur) ==
    [reg   |-> Append(reg, arr),
     calls |-> <<Call("cu_mempin", k, arr, get_nbytes(arr, nbytes), cur)>>]

\* host_unpin_loop with the break missing: the loop runs on to the last entry
\* that is the array.
host_unpin_loop_last(reg, arr, i) ==
    LET hits == {j \in i..Len(reg) : reg[j] = arr}
    IN  IF hits = {} THEN [hit |-> 0, reports |-> Len(reg) - i + 1]
        ELSE [hit |-> CHOOSE j \in hits : \A l \in hits : l <= j,
              reports |-> Len(reg) - i + 1 - Cardinality(hits)]

\* The loop of Device.host_unpin from its i-th iteration on: hit is the index
\* at which the loop breaks (0 when it runs to the end), reports the number of
\* "not found" messages printed on the way.  The else belongs to the if: a
\* message is printed for every entry that is not the array.
RECURSIVE host_unpin_loop(_, _, _)
host_unpin_loop(reg, arr, i) ==
    IF i > Len(reg) THEN [hit |-> 0, reports |-> 0]
    ELSE IF reg[i] = arr THEN [hit |-> i, reports |-> 0]
    ELSE LET r == host_unpin_loop(reg, arr, i + 1)
         IN  [hit |-> r.hit, reports |-> r.reports + 1]

\* Device.host_unpin.
host_unpin(reg, k, arr, cur) ==
    LET r == host_unpin_loop(reg, arr, 1)
    IN  IF r.hit = 0
        THEN [reg |-> reg, calls |-> <<>>, reports |-> r.reports]
        ELSE [reg     |-> list_pop(reg, r.hit),
              calls   |-> <<Call("cu_memunpin", k, arr, None, cur)>>,
              reports |-> r.reports]

\* The array np.require(arr, requirements="C") returns for an array that is
\* not C-contiguous: a new array, a C-ordered copy.
np_require(lay) == Cardinality(DOMAIN lay) + 1

\* The loop of Device.require_streamable from its i-th argument on.
RECURSIVE require_streamable_loop(_, _, _, _, _, _)
require_streamable_loop(reg, lay, k, args, i, cur) ==
    IF i > Len(args) THEN [reg |-> reg, layout |-> lay, calls |-> <<>>]
    ELSE LET arr  == args[i]
             copy == lay[arr] # "struct" /\ lay[arr] # "C"
             lay1 == IF copy THEN lay @@ (np_require(lay) :> "C") ELSE lay
             arr1 == IF copy THEN np_require(lay) ELSE arr
             p    == IF lay[arr] # "struct"
                     THEN host_pin(reg, k, arr1, None, cur)
                     ELSE host_pin(reg, k, arr, HostBytes, cur)
             r    == require_streamable_loop(p.reg, lay1, k, args, i + 1, cur)
         IN  [reg |-> r.reg, layout |-> r.layout, calls |-> p.calls \o r.calls]

\* Device.sync: cu_sync_device().
Device_sync(k, cur) == <<Call("cu_sync_device", k, None, None, cur)>>

\* exit_unpin_loop unpinning self._pinned_arrs[-1] instead.
RECURSIVE exit_unpin_loop_last(_, _, _, _)
exit_unpin_loop_last(reg, k, n, cur) ==
    IF n = 0 THEN [reg |-> reg, calls |-> <<>>, reports |-> 0]
    ELSE LET u == host_unpin(reg, k, reg[Len(reg)], cur)
             r == exit_unpin_loop_last(u.reg, k, n - 1, cur)
         IN  [reg |-> r.reg, calls |-> u.calls \o r.calls, reports |-> u.reports + r.reports]

\* The loop of Device.__exit__: n times host_unpin(self._pinned_arrs[0]).
RECURSIVE exit_unpin_loop(_, _, _, _)
exit_unpin_loop(reg, k, n, cur) ==
    IF n = 0 THEN [reg |-> reg, calls |-> <<>>, reports |-> 0]
    ELSE LET u == host_unpin(reg, k, reg[1], cur)
             r == exit_unpin_loop(u.reg, k, n - 1, cur)
         IN  [reg |-> r.reg, calls |-> u.calls \o r.calls, reports |-> u.reports + r.reports]

\* Device.__exit__ with the context's __exit__ called on a cleared Device too.
Device_exit_again(w, k) ==
    LET cur == Cur(w.ctxStack)
        u   == exit_unpin_loop(w.pinned_arrs[k], k, Len(w.pinned_arrs[k]), cur)
    IN  IF w.status[k] = "live"
        THEN [w |-> [w EXCEPT !.status[k] = "exited",
                              !.id[k] = None,
                              !.context[k] = None,
                              !.pinned_arrs[k] = <<>>,
                              !.streams[k] = <<>>,
                              !.ctxDestroyed = @ \cup {w.context[k]}],
              calls   |-> Device_sync(k, cur) \o u.calls \o cuCtx_exit(w.ctxStack, k),
              reports |-> u.reports,
              reg     |-> u.reg,
              raised  |-> FALSE]
        ELSE [w |-> w, calls |-> Device_sync(k, cur) \o cuCtx_exit(w.ctxStack, k),
              reports |-> 0, reg |-> <<>>, raised |-> FALSE]

\* Device.__exit__.  A constructed Device: sync, the unpin loop, the context's
\* __exit__, and the dictionary of the object is cleared.  A Device whose
\* dictionary was cleared: sync is called, then the registry attribute is
\* missing and the call raises.  w holds the objects and the native state.
Device_exit(w, k) ==
    LET cur == Cur(w.ctxStack)
        u   == exit_unpin_loop(w.pinned_arrs[k], k, Len(w.pinned_arrs[k]), cur)
    IN  IF w.status[k] = "live"
        THEN [w |-> [w EXCEPT !.status[k] = "exited",
                              !.id[k] = None,
                              !.context[k] = None,
                              !.pinned_arrs[k] = <<>>,
                              !.streams[k] = <<>>,
                              !.ctxDestroyed = @ \cup {w.context[k]}],
              calls   |-> Device_sync(k, cur) \o u.calls \o cuCtx_exit(w.ctxStack, k),
              reports |-> u.reports,
              reg     |-> u.reg,
              raised  |-> FALSE]
        ELSE [w |-> w, calls |-> Device_sync(k, cur), reports |-> 0, reg |-> <<>>,
              raised |-> TRUE]

\* Device.__init__: the context, the library handles, the properties, the Streams.
Device_init(w, k, device_id, n_streams, pushes) ==
    LET stack1 == cu_context_create(w.ctxStack, k, pushes)
        cur    == Cur(stack1)
        ss     == Streams_init(k, n_streams, cur)
    IN  [w |-> [w EXCEPT !.status[k] = "live",
                         !.id[k] = device_id,
                         !.context[k] = k,
                         !.pinned_arrs[k] = <<>>,
                         !.streams[k] = ss.streams,
                         !.ctxStack = stack1],
         calls |-> <<Call("cu_context_create", k, device_id, None, Cur(w.ctxStack)),
                     Call("cublas", k, None, None, cur),
                     Call("cufft", k, None, None, cur),
                     Call("cu_device_props", k, device_id, None, cur)>> \o ss.calls]

\* -------------------------------------------------------------- Devices
\* An argument that is one int, or a list of ints.
PyInt(n)     == [list |-> FALSE, items |-> <<n>>]
PyList(ns)   == [list |-> TRUE, items |-> ns]
IntLists(S, n) == UNION {[1..m -> S] : m \in 0..n}

\* zip(device_ids, n_streams) in Devices.__init__: n_streams is kept when it
\* is a list and repeated len(device_ids) times when it is one int; zip stops
\* at the end of the shorter list.
Devices_zip(device_ids, n_streams) ==
    LET ids == device_ids.items
        ns  == IF n_streams.list THEN n_streams.items
               ELSE [i \in 1..Len(ids) |-> n_streams.items[1]]
        m   == IF Len(ids) <= Len(ns) THEN Len(ids) ELSE Len(ns)
    IN  [i \in 1..m |-> [device_id |-> ids[i], n_streams |-> ns[i]]]

\* [Device(_device_id, _nstreams) for ... in zip(...)] from the i-th pair on:
\* the i-th Device is the object k = i.
RECURSIVE Devices_build(_, _, _, _)
Devices_build(w, pairs, i, pushes) ==
    IF i > Len(pairs) THEN [w |-> w, calls |-> <<>>]
    ELSE LET d == Device_init(w, i, pairs[i].device_id, pairs[i].n_streams, pushes)
             r == Devices_build(d.w, pairs, i + 1, pushes)
         IN  [w |-> r.w, calls |-> d.calls \o r.calls]

\* Devices.__init__.  list(device_ids) raises TypeError for an int, and the
\* except clause names device_ids, which is no exception class: the TypeError
\* reaches the caller.
Devices_init(w, device_ids, n_streams, pushes) ==
    IF ~device_ids.list
    THEN [w |-> w, devices |-> <<>>, calls |-> <<>>, raised |-> TRUE]
    ELSE LET pairs == Devices_zip(device_ids, n_streams)
             r     == Devices_build(w, pairs, 1, pushes)
         IN  [w |-> r.w, devices |-> [i \in 1..Len(pairs) |-> i],
              calls |-> r.calls, raised |-> FALSE]

\* Devices.sync: d.sync() for every Device, from the i-th on.
RECURSIVE Devices_sync(_, _, _)
Devices_sync(devs, i, cur) ==
    IF i > Len(devs) THEN <<>>
    ELSE Device_sync(devs[i], cur) \o Devices_sync(devs, i + 1, cur)

\* Devices.__exit__: d.__exit__() for every Device, from the i-th on; a
\* __exit__ that raises ends the loop.
RECURSIVE Devices_exit(_, _, _)
Devices_exit(w, devs, i) ==
    IF i > Len(devs)
    THEN [w |-> w, calls |-> <<>>, reports |-> 0, reg |-> <<>>, raised |-> FALSE]
    ELSE LET d == Device_exit(w, devs[i])
             r == Devices_exit(d.w, devs, i + 1)
         IN  IF d.raised THEN d
             ELSE [w |-> r.w, calls |-> d.calls \o r.calls,
                   reports |-> d.reports + r.reports, reg |-> d.reg \o r.reg,
                   raised |-> r.raised]

\* Whether every sync of Devices.__exit__ returns: the sync of each member is
\* issued under the context that is current when its __exit__ begins.
RECURSIVE Devices_exit_returns(_, _, _, _, _)
Devices_exit_returns(w, devs, i, qs, all_tasks) ==
    IF i > Len(devs) THEN TRUE
    ELSE /\ cu_sync_device_returns(qs, Cur(w.ctxStack), all_tasks)
         /\ IF Device_exit(w, devs[i]).raised THEN TRUE
            ELSE Devices_exit_returns(Device_exit(w, devs[i]).w, devs, i + 1, qs, all_tasks)

\* ------------------------------------------------------- memory handles
Dtypes == {"f4", "f8", "c8", "c16"}
Shapes == {<<2>>, <<2, 3>>, <<2, 3, 2>>}
Kinds  == {"Device_Ptr", "Unified_Ptr"}
Scalars == {3}                       \* the scalar fill values of the programs
ByteCounts == {0, 4, 16}             \* the byte counts the programs request
CopyDtypes == {"f4"}                 \* the dtypes of the handles the programs copy between
ListLens == {1, 12}                  \* the lengths of the lists and host arrays used as fill
IOps == {"add", "sub", "mul", "div"} \* __iadd__, __isub__, __imul__, __itruediv__

\* np.dtype(dtype).itemsize
itemsize(dtype) == CASE dtype = "f4" -> 4 [] dtype = "f8" -> 8 [] dtype = "c8" -> 8 [] dtype = "c16" -> 16

\* reduce(mul, shape)
RECURSIVE reduce_mul(_)
reduce_mul(shape) == IF Len(shape) = 1 THEN shape[1] ELSE shape[1] * reduce_mul(Tail(shape))

\* Device_Ptr.__init__ and Unified_Ptr.__init__ with no fill: the fields of
\* the handle, for the address ptr the native allocation returned.  frees
\* counts the cu_free calls the handle has issued.  h is what the attribute
\* h of a Unified_Ptr holds: the host view of the allocation ("array"); a
\* Device_Ptr has no such attribute ("none").
Ptr_init(kind, shape, dtype, ptr) ==
    [kind |-> kind, shape |-> shape, dtype |-> dtype, stream |-> None,
     size |-> reduce_mul(shape), nbytes |-> reduce_mul(shape) * itemsize(dtype),
     ptr |-> ptr, frees |-> 0,
     h |-> IF kind = "Unified_Ptr" THEN "array" ELSE "none"]

\* Device_Ptr.__exit__ and Unified_Ptr.__exit__: cu_free(self.ptr).  The
\* handle keeps its fields ("del self" only unbinds the local name).
Ptr_exit(h) == [h EXCEPT !.frees = @ + 1]

\* cu_free: the address is no longer allocated.
cu_free(mem, ptr) == mem \ {ptr}

\* The arguments of a call as Python sees them: a value and its type.
PyVal(t, v) == [t |-> t, v |-> v]

\* A byte count argument: NoneArg when the caller gives none, IntArg(n) for n.
NoneArg   == <<>>
IntArg(n) == <<n>>

\* Python's "nbytes or dflt": dflt when nbytes is None and when it is 0.
py_or(nbytes, dflt) == IF nbytes = NoneArg \/ nbytes = IntArg(0) THEN dflt ELSE nbytes[1]

\* min([a, b])
Min(a, b) == IF a <= b THEN a ELSE b

\* d2d without the comparison with the size of dst.
d2d_unchecked(src, dst, nbytes, cur) ==
    [raised |-> FALSE,
     calls |-> <<Call("cu_memcpy_d2d", None, <<src.ptr, dst.ptr>>,
                      Min(src.nbytes, py_or(nbytes, src.nbytes)), cur)>>]

\* Device_Ptr.d2d and Unified_Ptr.d2d (the same code): the byte count is
\* resolved, compared with the size of dst, and the native copy is issued.
d2d(src, dst, nbytes, cur) ==
    LET n == Min(src.nbytes, py_or(nbytes, src.nbytes))
    IN  IF n > dst.nbytes
        THEN [raised |-> TRUE, calls |-> <<>>]
        ELSE [raised |-> FALSE,
              calls |-> <<Call("cu_memcpy_d2d", None, <<src.ptr, dst.ptr>>, n, cur)>>]

\* "stream or self.stream" with the stream given ignored.
stream_or_self(stream, dflt) == dflt

\* "stream or self.stream": the stream given, the stream of the handle when
\* none is given.
stream_or(stream, dflt) == IF stream = None THEN dflt ELSE stream

\* Device_Ptr.d2d_async: as d2d, on the stream given or the stream of src.
d2d_async(src, dst, stream, nbytes, cur) ==
    LET n == Min(src.nbytes, py_or(nbytes, src.nbytes))
        st == stream_or(stream, src.stream)
    IN  IF n > dst.nbytes
        THEN [raised |-> TRUE, calls |-> <<>>]
        ELSE [raised |-> FALSE,
              calls |-> <<Call("cu_memcpy_d2d_async", st, <<src.ptr, dst.ptr>>, n, cur)>>]

\* Device_Ptr.to_device(arr, nbytes): the native copy from the host of at
\* most the size of the handle.
to_device(h, nbytes, cur) ==
    <<Call("cu_memcpy_h2d", None, h.ptr, Min(h.nbytes, py_or(nbytes, h.nbytes)), cur)>>

\* Device_Ptr.__init__(shape, dtype, fill): the allocation, then the copy of
\* the fill.  fill is None, a scalar, a list of fill.v elements, a host array
\* of fill.v elements, the Device_Ptr fill.v, or a value of another type.  The
\* temporary host array of a list or array fill has the dtype of the handle.
\* When the copy raises, the constructor returns no handle and the address
\* stays allocated.
Device_Ptr_init(shape, dtype, fill, ptr, cur) ==
    LET h      == Ptr_init("Device_Ptr", shape, dtype, ptr)
        malloc == <<Call("cu_malloc", None, ptr, h.nbytes, cur)>>
        done(cs) == [raised |-> FALSE, calls |-> malloc \o cs, handles |-> <<h>>]
        fails    == [raised |-> TRUE, calls |-> malloc, handles |-> <<>>]
    IN  CASE fill.t = "NoneType" -> done(<<>>)
          [] fill.t = "int" -> done(to_device(h, NoneArg, cur))
          [] fill.t = "list" -> done(to_device(h, IntArg(fill.v * itemsize(dtype)), cur))
          [] fill.t = "Device_Ptr" ->
                LET c == d2d(fill.v, h, NoneArg, cur)
                IN  IF c.raised THEN fails ELSE done(c.calls)
          [] fill.t = "ndarray" -> done(to_device(h, IntArg(fill.v * itemsize(dtype)), cur))
          [] OTHER -> fails

\* The shape tuple reversed: shape[::-1], and the shape of ndarray.T.
Reversed(shape) == [i \in 1..Len(shape) |-> shape[Len(shape) + 1 - i]]

\* Device_Ptr.T with the shape made square instead of reversed.
Device_Ptr_T_square(h, cur) ==
    IF Len(h.shape) # 2
    THEN [raised |-> TRUE, calls |-> <<>>, h |-> h]
    ELSE [raised |-> FALSE,
          calls |-> <<Call("cu_transpose", None, h.ptr, None, cur)>>,
          h |-> [h EXCEPT !.shape = <<h.shape[1], h.shape[1]>>]]

\* Device_Ptr.T: "nrows, ncols = self.shape" raises unless the shape has two
\* entries; then the native transpose and the shape is reversed.
Device_Ptr_T(h, cur) ==
    IF Len(h.shape) # 2
    THEN [raised |-> TRUE, calls |-> <<>>, h |-> h]
    ELSE [raised |-> FALSE,
          calls |-> <<Call("cu_transpose", None, h.ptr, None, cur)>>,
          h |-> [h EXCEPT !.shape = Reversed(h.shape)]]

\* Unified_Ptr.T with the view flattened instead of transposed.
Unified_Ptr_T_flat(h) ==
    IF h.h = "method"
    THEN [raised |-> TRUE, calls |-> <<>>, h |-> h]
    ELSE [raised |-> FALSE, calls |-> <<>>, h |-> [h EXCEPT !.shape = <<h.size>>]]

\* Unified_Ptr.T: the host view is replaced by its transpose, of any rank,
\* and the shape by the shape of the view.  After conj the attribute h is a
\* method, which has no attribute T: the call raises.
Unified_Ptr_T(h) ==
    IF h.h = "method"
    THEN [raised |-> TRUE, calls |-> <<>>, h |-> h]
    ELSE [raised |-> FALSE, calls |-> <<>>, h |-> [h EXCEPT !.shape = Reversed(h.shape)]]

\* Unified_Ptr.conj: "self.h = self.h.conj" binds the method conj of the
\* view, not its result; once h is a method the attribute lookup raises.
Unified_Ptr_conj(h) ==
    IF h.h = "method"
    THEN [raised |-> TRUE, h |-> h]
    ELSE [raised |-> FALSE, h |-> [h EXCEPT !.h = "method"]]

\* Unified_Ptr.__iadd__, __isub__, __imul__, __itruediv__: the numpy in-place
\* operator on the host view.  It raises when h is a method, when b is
\* neither a scalar nor a host array, and when the array b (flat, of b.v
\* elements) cannot be broadcast to the shape of the view.
Unified_Ptr_iop(h, b) ==
    [raised |-> \/ h.h = "method"
                \/ b.t \notin {"int", "ndarray"}
                \/ (b.t = "ndarray" /\ b.v # 1 /\ b.v # h.shape[Len(h.shape)])]

\* Device_Ptr.zero(nbytes): the native memset of at most the size of the handle.
zero(h, nbytes, cur) ==
    <<Call("cu_memset", None, h.ptr, Min(h.nbytes, py_or(nbytes, h.nbytes)), cur)>>

\* Device_Ptr.zero_async(stream, nbytes).  The second field of the call of an
\* asynchronous native function is the stream it is enqueued on.
zero_async(h, stream, nbytes, cur) ==
    <<Call("cu_memset_async", stream_or(stream, h.stream), h.ptr,
           Min(h.nbytes, py_or(nbytes, h.nbytes)), cur)>>

\* Device_Ptr.to_device_async(arr, stream, nbytes)
to_device_async(h, stream, nbytes, cur) ==
    <<Call("cu_memcpy_h2d_async", stream_or(stream, h.stream), h.ptr,
           Min(h.nbytes, py_or(nbytes, h.nbytes)), cur)>>

\* Device_Ptr.to_host(arr, nbytes): the native copy into arr, or into the
\* array tmp that np.empty creates when arr is None; the argument of the call
\* is the host array it copies into.  tmp is returned in the second case.
to_host(h, arr, nbytes, tmp, cur) ==
    [calls |-> <<Call("cu_memcpy_d2h", None, IF arr # None THEN arr ELSE tmp,
                      Min(h.nbytes, py_or(nbytes, h.nbytes)), cur)>>,
     returns |-> IF arr # None THEN None ELSE tmp]

\* Device_Ptr.to_host_async(arr, stream, nbytes): as to_host on the stream,
\* but in the second case the native copy is still passed arr, which is
\* None, and not tmp_arr.
to_host_async(h, arr, stream, nbytes, tmp, cur) ==
    [calls |-> <<Call("cu_memcpy_d2h_async", stream_or(stream, h.stream), arr,
                      Min(h.nbytes, py_or(nbytes, h.nbytes)), cur)>>,
     returns |-> IF arr # None THEN None ELSE tmp]

\* np.dtype('c8') or np.dtype('c16'): the first operand when a dtype object
\* is true, the second when it is false; numpy releases differ on it.
dtype_or(a, b, dtype_true) == IF dtype_true THEN a ELSE b

\* Device_Ptr.conj(inplace=True): the native conjugate when the dtype equals
\* the value of "np.dtype('c8') or np.dtype('c16')", nothing otherwise.
Device_Ptr_conj(h, dtype_true, cur) ==
    IF h.dtype = dtype_or("c8", "c16", dtype_true)
    THEN <<Call("cu_conj", None, h.ptr, h.size, cur)>>
    ELSE <<>>

\* check_input(a, b): the number of warnings it emits.
check_input(a, b) ==
    (IF a.dtype # b.dtype THEN 1 ELSE 0) + (IF a.shape # b.shape THEN 1 ELSE 0)

\* Device_Ptr.__iadd__, __isub__, __imul__, __itruediv__ (op is "add", "sub",
\* "mul", "div"): with a Device_Ptr b the vector kernel over self.size
\* elements after check_input, with a scalar the value kernel, with a value
\* of another type TypeError.  The byte count field of the call holds the
\* number of elements.
Device_Ptr_iop(op, a, b, cur) ==
    CASE b.t = "Device_Ptr" ->
            [raised |-> FALSE, warnings |-> check_input(a, b.v),
             calls |-> <<Call("cu_i" \o op \o "_vec", None, <<a.ptr, b.v.ptr>>, a.size, cur)>>]
      [] b.t = "int" ->
            [raised |-> FALSE, warnings |-> 0,
             calls |-> <<Call("cu_i" \o op \o "_val", None, <<a.ptr>>, a.size, cur)>>]
      [] OTHER -> [raised |-> TRUE, warnings |-> 0, calls |-> <<>>]

\* Device_DblPtr.__init__ with self.ptr the address of the Device_Ptr itself.
Device_DblPtr_init_alias(device_ptr, over, batch_size, dev_dblptr) ==
    [over |-> over, ptr |-> device_ptr.ptr, batch_size |-> batch_size,
     dtype |-> device_ptr.dtype, frees |-> 0]

\* Device_DblPtr.__init__(device_ptr, n, batch_size): self.ptr is the address
\* dev_dblptr that cu_malloc_dblptr returns, a new allocation that holds the
\* addresses of the batches inside the allocation of device_ptr.  over is
\* the handle the view was built over (the object keeps no reference to it),
\* frees the number of its __exit__ calls.
Device_DblPtr_init(device_ptr, over, batch_size, dev_dblptr) ==
    [over |-> over, ptr |-> dev_dblptr, batch_size |-> batch_size,
     dtype |-> device_ptr.dtype, frees |-> 0]

\* Device_DblPtr.__exit__: cu_free(self.ptr); the object keeps its fields.
Device_DblPtr_exit(v) == [v EXCEPT !.frees = @ + 1]

\* ---------------------------------------------------------------- Shared
\* np.dtype(x): a dtype for the name of a dtype; numpy raises TypeError for
\* a tuple of integers and for a ctypes pointer.
np_dtype(x) ==
    IF x.t = "str" THEN [raised |-> FALSE, dtype |-> x.v]
    ELSE [raised |-> TRUE, dtype |-> ""]

\* Shared.malloc(shape, dtype, stream, default), the method of a Device and
\* of its Streams; it reads nothing of self.  The native allocation of nbytes
\* returns the address ptr.  The handle is then constructed as
\* Device_Ptr(dev_ptr, shape, dtype, stream), while the parameters of
\* Device_Ptr.__init__ are (shape, dtype, fill, stream): the address is bound
\* to shape and the shape tuple to dtype, so np.dtype(dtype) raises before
\* the handle has a field.  The address stays allocated and no handle is
\* returned; the copy of default (d.h2d) is not reached.
Shared_malloc(k, shape, dtype, default, ptr, cur) ==
    LET nbytes == reduce_mul(shape) * itemsize(dtype)
        bound  == [shape |-> PyVal("c_void_p", ptr), dtype |-> PyVal("tuple", shape),
                   fill |-> PyVal("str", dtype), stream |-> None]
        d      == np_dtype(bound.dtype)
    IN  [calls   |-> <<Call("cu_malloc", k, ptr, nbytes, cur)>>,
         heap    |-> {ptr},
         raised  |-> d.raised,
         handles |-> IF d.raised THEN <<>> ELSE <<Ptr_init("Device_Ptr", shape, d.dtype, ptr)>>]

\* ------------------------------------------------------- Device actions
\* The sequences of at most n of the arrays that exist.
ArgLists(lay, n) == UNION {[1..m -> DOMAIN lay] : m \in 1..n}

\* The arguments of a require_streamable call that np.require copies.
Copied(lay, args) == {i \in 1..Len(args) : lay[args[i]] = "F"}

\* The Device objects and the native state of the contexts, as one record.
World ==
    [status |-> status, id |-> id, context |-> context, pinned_arrs |-> pinned_arrs,
     streams |-> streams, ctxStack |-> ctxStack, ctxDestroyed |-> ctxDestroyed]

\* The next state holds the objects and the native state of w.
Becomes(w) ==
    /\ status' = w.status
    /\ id' = w.id
    /\ context' = w.context
    /\ pinned_arrs' = w.pinned_arrs
    /\ streams' = w.streams
    /\ ctxStack' = w.ctxStack
    /\ ctxDestroyed' = w.ctxDestroyed

\* d = Device(device_id, n_streams)
NewDevice(k, device_id, n_streams) ==
    /\ status[k] = "none"
    /\ Len(ctxStack) < MaxDepth
    /\ LET r == Device_init(World, k, device_id, n_streams, create_pushes)
       IN  /\ Becomes(r.w)
           /\ calls' = r.calls
           /\ ret' = Ret("__init__", k, FALSE, 0, <<device_id, n_streams>>)
    /\ UNCHANGED <<devices, layout, ptrs, heap, create_pushes, queues, data, pc, views>>

\* d.host_pin(arr, nbytes).  On a Device whose dictionary was cleared the
\* native pin is still issued; the append fails inside the try, whose handler
\* prints two messages.
HostPin(k, arr, nbytes) ==
    /\ status[k] \in {"live", "exited"}
    /\ arr \in DOMAIN layout
    /\ Len(pinned_arrs[k]) < MaxPins
    /\ LET r == host_pin(pinned_arrs[k], k, arr, nbytes, Cur(ctxStack))
       IN  /\ calls' = r.calls
           /\ IF status[k] = "live"
              THEN /\ pinned_arrs' = [pinned_arrs EXCEPT ![k] = r.reg]
                   /\ ret' = Ret("host_pin", k, FALSE, 0, <<arr>>)
              ELSE /\ UNCHANGED pinned_arrs
                   /\ ret' = Ret("host_pin", k, FALSE, 2, <<arr>>)
    /\ UNCHANGED <<status, id, context, streams, devices, layout, ptrs,
                   ctxStack, ctxDestroyed, heap, create_pushes, queues, data, pc, views>>

\* d.host_unpin(arr).  On a cleared Device the registry attribute is missing
\* and the call raises before anything is done.
HostUnpin(k, arr) ==
    /\ status[k] \in {"live", "exited"}
    /\ arr \in DOMAIN layout
    /\ LET r == host_unpin(pinned_arrs[k], k, arr, Cur(ctxStack))
       IN  IF status[k] = "live"
           THEN /\ pinned_arrs' = [pinned_arrs EXCEPT ![k] = r.reg]
                /\ calls' = r.calls
                /\ ret' = Ret("host_unpin", k, FALSE, r.reports, <<arr>>)
           ELSE /\ UNCHANGED pinned_arrs
                /\ calls' = <<>>
                /\ ret' = Ret("host_unpin", k, TRUE, 0, <<arr>>)
    /\ UNCHANGED <<status, id, context, streams, devices, layout, ptrs,
                   ctxStack, ctxDestroyed, heap, create_pushes, queues, data, pc, views>>

\* d.require_streamable(*args)
RequireStreamable(k, args) ==
    /\ status[k] \in {"live", "exited"}
    /\ Len(pinned_arrs[k]) + Len(args) <= MaxPins
    /\ Cardinality(DOMAIN layout) + Cardinality(Copied(layout, args)) <= NumArrs
    /\ LET r == require_streamable_loop(pinned_arrs[k], layout, k, args, 1, Cur(ctxStack))
       IN  /\ layout' = r.layout
           /\ calls' = r.calls
           /\ IF status[k] = "live"
              THEN /\ pinned_arrs' = [pinned_arrs EXCEPT ![k] = r.reg]
                   /\ ret' = Ret("require_streamable", k, FALSE, 0, args)
              ELSE /\ UNCHANGED pinned_arrs
                   /\ ret' = Ret("require_streamable", k, FALSE, 2 * Len(args), args)
    /\ UNCHANGED <<status, id, context, streams, devices, ptrs,
                   ctxStack, ctxDestroyed, heap, create_pushes, queues, data, pc, views>>

\* d.set_context(): self.context.push().  On a cleared Device the context
\* attribute is missing and the call raises.
SetContext(k) ==
    /\ status[k] \in {"live", "exited"}
    /\ Len(ctxStack) < MaxDepth
    /\ LET r == cuCtx_push(ctxStack, k)
       IN  IF status[k] = "live"
           THEN /\ ctxStack' = r.stack
                /\ calls' = r.calls
                /\ ret' = Ret("set_context", k, FALSE, 0, <<>>)
           ELSE /\ UNCHANGED ctxStack
                /\ calls' = <<>>
                /\ ret' = Ret("set_context", k, TRUE, 0, <<>>)
    /\ UNCHANGED <<status, id, context, pinned_arrs, streams, devices, layout, ptrs,
                   ctxDestroyed, heap, create_pushes, queues, data, pc, views>>

\* d.context.push()
CtxPush(k) ==
    /\ status[k] = "live"
    /\ Len(ctxStack) < MaxDepth
    /\ LET r == cuCtx_push(ctxStack, k)
       IN  /\ ctxStack' = r.stack
           /\ calls' = r.calls
           /\ ret' = Ret("push", k, FALSE, 0, <<>>)
    /\ UNCHANGED <<status, id, context, pinned_arrs, streams, devices, layout, ptrs,
                   ctxDestroyed, heap, create_pushes, queues, data, pc, views>>

\* d.context.pop(), with a context on the stack
CtxPop(k) ==
    /\ status[k] = "live"
    /\ ctxStack # <<>>
    /\ LET r == cuCtx_pop(ctxStack, k)
       IN  /\ ctxStack' = r.stack
           /\ calls' = r.calls
           /\ ret' = Ret("pop", k, FALSE, 0, <<>>)
    /\ UNCHANGED <<status, id, context, pinned_arrs, streams, devices, layout, ptrs,
                   ctxDestroyed, heap, create_pushes, queues, data, pc, views>>

\* d.context(method, *args), with a method that returns or one that raises
CtxCall(k, raises) ==
    /\ status[k] = "live"
    /\ Len(ctxStack) < MaxDepth
    /\ LET r == cuCtx_call(ctxStack, k, raises)
       IN  /\ ctxStack' = r.stack
           /\ calls' = r.calls
           /\ ret' = Ret("__call__", k, r.raised, 0, <<>>)
    /\ UNCHANGED <<status, id, context, pinned_arrs, streams, devices, layout, ptrs,
                   ctxDestroyed, heap, create_pushes, queues, data, pc, views>>

\* d.sync(): a method, it needs no attribute of the object.
Sync(k) ==
    /\ status[k] \in {"live", "exited"}
    /\ \E all_tasks \in BOOLEAN : cu_sync_device_returns(queues, Cur(ctxStack), all_tasks)
    /\ calls' = Device_sync(k, Cur(ctxStack))
    /\ ret' = Ret("sync", k, FALSE, 0, <<>>)
    /\ UNCHANGED <<status, id, context, pinned_arrs, streams, devices, layout, ptrs,
                   ctxStack, ctxDestroyed, heap, create_pushes, queues, data, pc, views>>

\* d.__exit__()
Exit(k) ==
    /\ status[k] \in {"live", "exited"}
    /\ \E all_tasks \in BOOLEAN : cu_sync_device_returns(queues, Cur(ctxStack), all_tasks)
    /\ LET r == Device_exit(World, k)
       IN  /\ Becomes(r.w)
           /\ calls' = r.calls
           /\ ret' = Ret("__exit__", k, r.raised, r.reports, r.reg)
    /\ UNCHANGED <<devices, layout, ptrs, heap, create_pushes, queues, data, pc, views>>

\* -------------------------------------------------------- specification
Init ==
    /\ status = [k \in Dev |-> "none"]
    /\ id = [k \in Dev |-> None]
    /\ context = [k \in Dev |-> None]
    /\ pinned_arrs = [k \in Dev |-> <<>>]
    /\ streams = [k \in Dev |-> <<>>]
    /\ devices = <<>>
    /\ layout \in [CallerArrs -> Layouts]
    /\ ptrs = <<>>
    /\ ctxStack = <<>>
    /\ ctxDestroyed = {}
    /\ heap = {}
    /\ create_pushes \in BOOLEAN
    /\ queues = [k \in Dev |-> [q \in QueueIds |-> <<>>]]
    /\ data = [b \in Bufs |-> IF \E s \in 1..nstreams : b \in {HostA(s), HostB(s)}
                              THEN {CHOOSE s \in 1..nstreams : b \in {HostA(s), HostB(s)}}
                              ELSE {}]
    /\ pc = [s \in 1..nstreams |-> 0]
    /\ views = <<>>
    /\ calls = <<>>
    /\ ret = Ret("none", None, FALSE, 0, <<>>)

\* A program that holds one Device, on the default device id, and pins and
\* unpins host arrays.
Next ==
    \/ \E n \in 0..MaxStreams : NewDevice(1, 0, n)
    \/ \E arr \in Arrs, nbytes \in {None, HostBytes \div 2} : HostPin(1, arr, nbytes)
    \/ \E arr \in Arrs : HostUnpin(1, arr)
    \/ \E args \in ArgLists(layout, MaxArgs) : RequireStreamable(1, args)
    \/ Sync(1)
    \/ Exit(1)

Spec == Init /\ [][Next]_vars

\* A program that holds one Device and works with its context.
NextCtx ==
    \/ \E device_id \in DeviceIds, n \in 0..MaxStreams : NewDevice(1, device_id, n)
    \/ SetContext(1)
    \/ CtxPush(1)
    \/ CtxPop(1)
    \/ \E raises \in BOOLEAN : CtxCall(1, raises)
    \/ Sync(1)
    \/ Exit(1)

InitCtx == Init /\ layout = [a \in CallerArrs |-> "C"]

SpecCtx == InitCtx /\ [][NextCtx]_vars

\* ------------------------------------------------------ Devices actions
\* ds = Devices(device_ids, n_streams), when no Device exists yet
NewDevices(device_ids, n_streams) ==
    /\ \A k \in Dev : status[k] = "none"
    /\ Len(ctxStack) + Len(device_ids.items) <= MaxDepth + 1
    /\ LET r == Devices_init(World, device_ids, n_streams, create_pushes)
       IN  /\ Becomes(r.w)
           /\ devices' = r.devices
           /\ calls' = r.calls
           /\ ret' = Ret("Devices.__init__", None, r.raised, 0, <<device_ids, n_streams>>)
    /\ UNCHANGED <<layout, ptrs, heap, create_pushes, queues, data, pc, views>>

\* ds.sync()
DevicesSync ==
    /\ devices # <<>>
    /\ \E all_tasks \in BOOLEAN : cu_sync_device_returns(queues, Cur(ctxStack), all_tasks)
    /\ calls' = Devices_sync(devices, 1, Cur(ctxStack))
    /\ ret' = Ret("Devices.sync", None, FALSE, 0, <<>>)
    /\ UNCHANGED <<status, id, context, pinned_arrs, streams, devices, layout, ptrs,
                   ctxStack, ctxDestroyed, heap, create_pushes, queues, data, pc, views>>

\* ds.__exit__()
DevicesExit ==
    /\ devices # <<>>
    /\ \E all_tasks \in BOOLEAN : Devices_exit_returns(World, devices, 1, queues, all_tasks)
    /\ LET r == Devices_exit(World, devices, 1)
       IN  /\ Becomes(r.w)
           /\ calls' = r.calls
           /\ ret' = Ret("Devices.__exit__", None, r.raised, r.reports, <<>>)
    /\ UNCHANGED <<devices, layout, ptrs, heap, create_pushes, queues, data, pc, views>>

\* ----------------------------------------------- memory handle actions
\* p = Device_Ptr(shape, dtype) or Unified_Ptr(shape, dtype): the native
\* allocation returns an address that is not allocated.
NewPtr(kind, shape, dtype, ptr) ==
    /\ Len(ptrs) < MaxPtrs
    /\ ptr \notin heap
    /\ heap' = heap \cup {ptr}
    /\ ptrs' = Append(ptrs, Ptr_init(kind, shape, dtype, ptr))
    /\ calls' = <<Call(IF kind = "Device_Ptr" THEN "cu_malloc" ELSE "cu_malloc_managed",
                       None, ptr, reduce_mul(shape) * itemsize(dtype), Cur(ctxStack))>>
    /\ ret' = Ret("Ptr.__init__", None, FALSE, 0, <<>>)
    /\ UNCHANGED <<status, id, context, pinned_arrs, streams, devices, layout,
                   ctxStack, ctxDestroyed, create_pushes, queues, data, pc, views>>

\* p.__exit__() on the h-th handle
PtrExit(h) ==
    /\ h \in DOMAIN ptrs
    /\ ptrs[h].frees < MaxFrees
    /\ heap' = cu_free(heap, ptrs[h].ptr)
    /\ ptrs' = [ptrs EXCEPT ![h] = Ptr_exit(ptrs[h])]
    /\ calls' = <<Call("cu_free", None, ptrs[h].ptr, None, Cur(ctxStack))>>
    /\ ret' = Ret("Ptr.__exit__", None, FALSE, 0, <<>>)
    /\ UNCHANGED <<status, id, context, pinned_arrs, streams, devices, layout,
                   ctxStack, ctxDestroyed, create_pushes, queues, data, pc, views>>

\* The values a program can pass where a handle, a scalar or a host array is
\* expected: a scalar, a list, a host array, one of its handles, a string.
Values ==
    {PyVal("int", v) : v \in Scalars}
    \cup {PyVal(t, n) : t \in {"list", "ndarray"}, n \in ListLens}
    \cup {PyVal(ptrs[i].kind, ptrs[i]) : i \in DOMAIN ptrs}
    \cup {PyVal("str", "x")}

\* p = Device_Ptr(shape, dtype, fill=fill)
NewPtrFill(shape, dtype, fill, ptr) ==
    /\ Len(ptrs) < MaxPtrs
    /\ ptr \notin heap
    /\ LET r == Device_Ptr_init(shape, dtype, fill, ptr, Cur(ctxStack))
       IN  /\ heap' = heap \cup {ptr}
           /\ ptrs' = ptrs \o r.handles
           /\ calls' = r.calls
           /\ ret' = Ret("Device_Ptr.__init__", None, r.raised, 0,
                         <<shape, dtype, fill.t, IF fill.t \in Kinds THEN fill.v.nbytes
                                                 ELSE IF fill.t \in {"list", "ndarray"}
                                                      THEN fill.v * itemsize(dtype) ELSE None>>)
    /\ UNCHANGED <<status, id, context, pinned_arrs, streams, devices, layout,
                   ctxStack, ctxDestroyed, create_pushes, queues, data, pc, views>>

\* Device_Ptr.d2d(src, dst, nbytes) or Unified_Ptr.d2d(src, dst, nbytes) on
\* the handles src and dst of the program
D2d(src, dst, nbytes) ==
    /\ src \in DOMAIN ptrs /\ dst \in DOMAIN ptrs
    /\ LET r == d2d(ptrs[src], ptrs[dst], nbytes, Cur(ctxStack))
       IN  /\ calls' = r.calls
           /\ ret' = Ret("d2d", None, r.raised, 0, <<src, dst, nbytes>>)
    /\ UNCHANGED <<status, id, context, pinned_arrs, streams, devices, layout, ptrs,
                   ctxStack, ctxDestroyed, heap, create_pushes, queues, data, pc, views>>

\* Device_Ptr.d2d_async(src, dst, stream, nbytes)
D2dAsyncOn(src, dst, stream, nbytes) ==
    /\ src \in DOMAIN ptrs /\ dst \in DOMAIN ptrs
    /\ LET r == d2d_async(ptrs[src], ptrs[dst], stream, nbytes, Cur(ctxStack))
       IN  /\ calls' = r.calls
           /\ ret' = Ret("d2d_async", None, r.raised, 0, <<src, dst, nbytes, stream>>)
    /\ UNCHANGED <<status, id, context, pinned_arrs, streams, devices, layout, ptrs,
                   ctxStack, ctxDestroyed, heap, create_pushes, queues, data, pc, views>>

\* Device_Ptr.d2d_async(src, dst, nbytes=nbytes), with no stream given
D2dAsync(src, dst, nbytes) == D2dAsyncOn(src, dst, None, nbytes)

\* p.T() on the h-th handle.  The return record keeps the shape before the
\* call and, when the call before was a T of the same handle that returned,
\* the shape before that one (otherwise the empty tuple).
PtrT(h) ==
    /\ h \in DOMAIN ptrs
    /\ LET r == IF ptrs[h].kind = "Device_Ptr" THEN Device_Ptr_T(ptrs[h], Cur(ctxStack))
                ELSE Unified_Ptr_T(ptrs[h])
       IN  /\ ptrs' = [ptrs EXCEPT ![h] = r.h]
           /\ calls' = r.calls
           /\ ret' = Ret("T", None, r.raised, 0,
                         <<h, ptrs[h].shape,
                           IF ret.op = "T" /\ ~ret.raised /\ ret.args[1] = h
                           THEN ret.args[2] ELSE <<>> >>)
    /\ UNCHANGED <<status, id, context, pinned_arrs, streams, devices, layout,
                   ctxStack, ctxDestroyed, heap, create_pushes, queues, data, pc, views>>

\* p.conj() on the h-th handle, a Device_Ptr; dtype_true is whether the numpy
\* in use makes a dtype object true.
PtrConj(h, dtype_true) ==
    /\ h \in DOMAIN ptrs
    /\ ptrs[h].kind = "Device_Ptr"
    /\ calls' = Device_Ptr_conj(ptrs[h], dtype_true, Cur(ctxStack))
    /\ ret' = Ret("conj", None, FALSE, 0, <<h>>)
    /\ UNCHANGED <<status, id, context, pinned_arrs, streams, devices, layout, ptrs,
                   ctxStack, ctxDestroyed, heap, create_pushes, queues, data, pc, views>>

\* a += b, a -= b, a *= b, a /= b on the Device_Ptr a
PtrIOp(op, a, b) ==
    /\ a \in DOMAIN ptrs
    /\ ptrs[a].kind = "Device_Ptr"
    /\ LET r == Device_Ptr_iop(op, ptrs[a], b, Cur(ctxStack))
       IN  /\ calls' = r.calls
           /\ ret' = Ret("i" \o op, None, r.raised, r.warnings,
                         <<a, b.t, IF b.t \in Kinds THEN b.v.size ELSE None,
                           b.t \in Kinds /\ (b.v.shape # ptrs[a].shape \/ b.v.dtype # ptrs[a].dtype)>>)
    /\ UNCHANGED <<status, id, context, pinned_arrs, streams, devices, layout, ptrs,
                   ctxStack, ctxDestroyed, heap, create_pushes, queues, data, pc, views>>

\* d.malloc(shape, dtype, default=default) on a Device, constructed or
\* cleared (the method reads nothing of self).  default is None or a scalar.
Malloc(k, shape, dtype, default, ptr) ==
    /\ status[k] \in {"live", "exited"}
    /\ ptr \notin heap
    /\ LET r == Shared_malloc(k, shape, dtype, default, ptr, Cur(ctxStack))
       IN  /\ heap' = heap \cup r.heap
           /\ ptrs' = ptrs \o r.handles
           /\ calls' = r.calls
           /\ ret' = Ret("malloc", k, r.raised, 0, <<shape, dtype, default>>)
    /\ UNCHANGED <<status, id, context, pinned_arrs, streams, devices, layout,
                   ctxStack, ctxDestroyed, create_pushes, queues, data, pc, views>>

\* A program that holds a Devices container and works with its members.
NextSet ==
    \/ \E ids \in IntLists(DeviceIds, NumDev), ns \in IntLists(0..MaxStreams, NumDev) :
           NewDevices(PyList(ids), PyList(ns))
    \/ \E ids \in IntLists(DeviceIds, NumDev), n \in 0..MaxStreams :
           NewDevices(PyList(ids), PyInt(n))
    \/ \E device_id \in DeviceIds, n \in 0..MaxStreams : NewDevices(PyInt(device_id), PyInt(n))
    \/ DevicesSync
    \/ DevicesExit
    \/ \E i \in DOMAIN devices : SetContext(devices[i])
    \/ \E i \in DOMAIN devices : CtxPop(devices[i])
    \/ \E i \in DOMAIN devices : Sync(devices[i])
    \/ \E i \in DOMAIN devices : Exit(devices[i])

SpecSet == InitCtx /\ [][NextSet]_vars

\* A program that allocates and releases memory handles.
NextPtr ==
    \/ \E kind \in Kinds, shape \in Shapes, dtype \in Dtypes, ptr \in Addrs :
           NewPtr(kind, shape, dtype, ptr)
    \/ \E h \in 1..MaxPtrs : PtrExit(h)

InitPtr == InitCtx /\ create_pushes = FALSE

SpecPtr == InitPtr /\ [][NextPtr]_vars

\* v = Device_DblPtr(p, n, batch_size) over the h-th handle, a Device_Ptr that
\* was not released and whose allocation exists (the native call computes the
\* addresses of the batches inside it); the native allocation returns an
\* address that is not allocated.
NewDblPtr(h, n, batch_size, ptr) ==
    /\ h \in DOMAIN ptrs
    /\ ptrs[h].kind = "Device_Ptr"
    /\ ptrs[h].frees = 0
    /\ ptrs[h].ptr \in heap
    /\ Len(views) < MaxPtrs
    /\ ptr \notin heap
    /\ heap' = heap \cup {ptr}
    /\ views' = Append(views, Device_DblPtr_init(ptrs[h], h, batch_size, ptr))
    /\ calls' = <<Call("cu_malloc_dblptr", None, ptr, n * n, Cur(ctxStack))>>
    /\ ret' = Ret("DblPtr.__init__", None, FALSE, 0, <<h>>)
    /\ UNCHANGED <<status, id, context, pinned_arrs, streams, devices, layout, ptrs,
                   ctxStack, ctxDestroyed, create_pushes, queues, data, pc>>

\* v.__exit__() on the v-th view
DblPtrExit(v) ==
    /\ v \in DOMAIN views
    /\ views[v].frees < MaxFrees
    /\ heap' = cu_free(heap, views[v].ptr)
    /\ views' = [views EXCEPT ![v] = Device_DblPtr_exit(views[v])]
    /\ calls' = <<Call("cu_free", None, views[v].ptr, None, Cur(ctxStack))>>
    /\ ret' = Ret("DblPtr.__exit__", None, FALSE, 0, <<v>>)
    /\ UNCHANGED <<status, id, context, pinned_arrs, streams, devices, layout, ptrs,
                   ctxStack, ctxDestroyed, create_pushes, queues, data, pc>>

\* The tail of every handle action: nothing but the handles, the native
\* allocations, calls and ret can change.
HandleFrame ==
    UNCHANGED <<status, id, context, pinned_arrs, streams, devices, layout,
                ctxStack, ctxDestroyed, create_pushes, queues, data, pc, views>>

\* p = Device_Ptr(shape, dtype, stream=stream)
NewPtrOn(shape, dtype, stream, ptr) ==
    /\ Len(ptrs) < MaxPtrs
    /\ ptr \notin heap
    /\ heap' = heap \cup {ptr}
    /\ ptrs' = Append(ptrs, [Ptr_init("Device_Ptr", shape, dtype, ptr) EXCEPT !.stream = stream])
    /\ calls' = <<Call("cu_malloc", None, ptr, reduce_mul(shape) * itemsize(dtype),
                       Cur(ctxStack))>>
    /\ ret' = Ret("Ptr.__init__", None, FALSE, 0, <<>>)
    /\ HandleFrame

\* u.conj() on the h-th handle, a Unified_Ptr
UniConj(h) ==
    /\ h \in DOMAIN ptrs
    /\ ptrs[h].kind = "Unified_Ptr"
    /\ LET r == Unified_Ptr_conj(ptrs[h])
       IN  /\ ptrs' = [ptrs EXCEPT ![h] = r.h]
           /\ ret' = Ret("conj", None, r.raised, 0, <<h>>)
    /\ calls' = <<>>
    /\ UNCHANGED heap
    /\ HandleFrame

\* a += b, a -= b, a *= b, a /= b on the Unified_Ptr a
UniIOp(op, a, b) ==
    /\ a \in DOMAIN ptrs
    /\ ptrs[a].kind = "Unified_Ptr"
    /\ calls' = <<>>
    /\ ret' = Ret("i" \o op, None, Unified_Ptr_iop(ptrs[a], b).raised, 0, <<a, b.t, None, FALSE>>)
    /\ UNCHANGED <<ptrs, heap>>
    /\ HandleFrame

\* p.zero(nbytes) on the h-th handle, a Device_Ptr
PtrZero(h, nbytes) ==
    /\ h \in DOMAIN ptrs
    /\ ptrs[h].kind = "Device_Ptr"
    /\ calls' = zero(ptrs[h], nbytes, Cur(ctxStack))
    /\ ret' = Ret("zero", None, FALSE, 0, <<h, None, nbytes>>)
    /\ UNCHANGED <<ptrs, heap>>
    /\ HandleFrame

\* p.zero_async(stream, nbytes)
PtrZeroAsync(h, stream, nbytes) ==
    /\ h \in DOMAIN ptrs
    /\ ptrs[h].kind = "Device_Ptr"
    /\ calls' = zero_async(ptrs[h], stream, nbytes, Cur(ctxStack))
    /\ ret' = Ret("zero_async", None, FALSE, 0, <<h, None, nbytes, stream>>)
    /\ UNCHANGED <<ptrs, heap>>
    /\ HandleFrame

\* p.to_device(arr, nbytes) with the host array arr
PtrToDevice(h, arr, nbytes) ==
    /\ h \in DOMAIN ptrs
    /\ ptrs[h].kind = "Device_Ptr"
    /\ calls' = to_device(ptrs[h], nbytes, Cur(ctxStack))
    /\ ret' = Ret("to_device", None, FALSE, 0, <<h, arr, nbytes>>)
    /\ UNCHANGED <<ptrs, heap>>
    /\ HandleFrame

\* p.to_device_async(arr, stream, nbytes)
PtrToDeviceAsync(h, arr, stream, nbytes) ==
    /\ h \in DOMAIN ptrs
    /\ ptrs[h].kind = "Device_Ptr"
    /\ calls' = to_device_async(ptrs[h], stream, nbytes, Cur(ctxStack))
    /\ ret' = Ret("to_device_async", None, FALSE, 0, <<h, arr, nbytes, stream>>)
    /\ UNCHANGED <<ptrs, heap>>
    /\ HandleFrame

\* The host array that np.empty creates in to_host and to_host_async: an
\* array that is none of the arrays that exist.
TmpArr == NumArrs + 1

\* p.to_host(arr, nbytes), arr a host array or None
PtrToHost(h, arr, nbytes) ==
    /\ h \in DOMAIN ptrs
    /\ ptrs[h].kind = "Device_Ptr"
    /\ LET r == to_host(ptrs[h], arr, nbytes, TmpArr, Cur(ctxStack))
       IN  /\ calls' = r.calls
           /\ ret' = Ret("to_host", None, FALSE, 0, <<h, arr, nbytes, None, r.returns>>)
    /\ UNCHANGED <<ptrs, heap>>
    /\ HandleFrame

\* p.to_host_async(arr, stream, nbytes), arr a host array or None
PtrToHostAsync(h, arr, stream, nbytes) ==
    /\ h \in DOMAIN ptrs
    /\ ptrs[h].kind = "Device_Ptr"
    /\ LET r == to_host_async(ptrs[h], arr, stream, nbytes, TmpArr, Cur(ctxStack))
       IN  /\ calls' = r.calls
           /\ ret' = Ret("to_host_async", None, FALSE, 0, <<h, arr, nbytes, stream, r.returns>>)
    /\ UNCHANGED <<ptrs, heap>>
    /\ HandleFrame

\* d.streams[s].malloc(shape, dtype): Shared.malloc called on the s-th Stream
\* of the Device, with no stream argument.
StreamMalloc(k, s, shape, dtype, ptr) ==
    /\ status[k] = "live"
    /\ s \in DOMAIN streams[k]
    /\ ptr \notin heap
    /\ LET r == Shared_malloc(k, shape, dtype, None, ptr, Cur(ctxStack))
       IN  /\ heap' = heap \cup r.heap
           /\ ptrs' = ptrs \o r.handles
           /\ calls' = r.calls
           /\ ret' = Ret("Stream.malloc", k, r.raised, 0, <<s, shape, dtype>>)
    /\ UNCHANGED <<status, id, context, pinned_arrs, streams, devices, layout,
                   ctxStack, ctxDestroyed, create_pushes, queues, data, pc, views>>

\* A program that constructs memory handles, some with a fill, and copies
\* between them.
NextCopy ==
    \/ \E kind \in Kinds, shape \in Shapes, dtype \in CopyDtypes, ptr \in Addrs :
           NewPtr(kind, shape, dtype, ptr)
    \/ \E shape \in Shapes, dtype \in CopyDtypes, fill \in Values \cup {PyVal("NoneType", None)},
          ptr \in Addrs :
           NewPtrFill(shape, dtype, fill, ptr)
    \/ \E src, dst \in 1..MaxPtrs, nbytes \in {NoneArg} \cup {IntArg(n) : n \in ByteCounts} :
           D2d(src, dst, nbytes)
    \/ \E src, dst \in 1..MaxPtrs, nbytes \in {NoneArg} \cup {IntArg(n) : n \in ByteCounts} :
           D2dAsync(src, dst, nbytes)

SpecCopy == InitPtr /\ [][NextCopy]_vars

\* A program that constructs memory handles and transposes, conjugates and
\* combines them in place.
NextOps ==
    \/ \E kind \in Kinds, shape \in Shapes, dtype \in Dtypes, ptr \in Addrs :
           NewPtr(kind, shape, dtype, ptr)
    \/ \E h \in 1..MaxPtrs : PtrT(h)
    \/ \E h \in 1..MaxPtrs, dtype_true \in BOOLEAN : PtrConj(h, dtype_true)
    \/ \E op \in IOps, a \in 1..MaxPtrs, b \in Values : PtrIOp(op, a, b)

SpecOps == InitPtr /\ [][NextOps]_vars

\* A program that holds one Device and allocates device memory through it.
\* Every allocation of this program is made through the Device.
NextMem ==
    \/ \E n \in 0..MaxStreams : NewDevice(1, 0, n)
    \/ \E shape \in Shapes, dtype \in Dtypes, default \in Scalars \cup {None}, ptr \in Addrs :
           Malloc(1, shape, dtype, default, ptr)
    \/ \E s \in 1..MaxStreams, shape \in Shapes, dtype \in Dtypes, ptr \in Addrs :
           StreamMalloc(1, s, shape, dtype, ptr)
    \/ Sync(1)
    \/ Exit(1)

SpecMem == InitPtr /\ [][NextMem]_vars

\* The stream handles a caller can pass: those of the Streams and one more.
StreamPtrs == 1..(MaxStreams + 1)

AsyncShapes == {<<2>>}

AsyncByteCounts == {NoneArg, IntArg(4)}

\* A program that constructs device handles with a stream affinity and
\* enqueues fills and copies on them.
NextAsync ==
    \/ \E shape \in AsyncShapes, dtype \in CopyDtypes, stream \in StreamPtrs \cup {None} :
           NewPtrOn(shape, dtype, stream, Len(ptrs) + 1)
    \/ \E h \in 1..MaxPtrs, stream \in StreamPtrs \cup {None}, nbytes \in AsyncByteCounts :
           PtrZeroAsync(h, stream, nbytes)
    \/ \E h \in 1..MaxPtrs, stream \in StreamPtrs \cup {None}, nbytes \in AsyncByteCounts :
           PtrToDeviceAsync(h, 1, stream, nbytes)
    \/ \E h \in 1..MaxPtrs, arr \in {1, None}, stream \in StreamPtrs \cup {None},
          nbytes \in AsyncByteCounts :
           PtrToHostAsync(h, arr, stream, nbytes)
    \/ \E src, dst \in 1..MaxPtrs, stream \in StreamPtrs \cup {None}, nbytes \in AsyncByteCounts :
           D2dAsyncOn(src, dst, stream, nbytes)

SpecAsync == InitPtr /\ [][NextAsync]_vars

MetaDtypes == {"f4", "c8"}

MetaShapes == {<<2>>, <<2, 3>>}

MetaOps == {"add", "div"}

\* A program that constructs memory handles of both kinds and applies the
\* operations of a handle to them; the asynchronous ones are in NextAsync.
NextMeta ==
    \/ \E kind \in Kinds, shape \in MetaShapes, dtype \in MetaDtypes :
           NewPtr(kind, shape, dtype, Len(ptrs) + 1)
    \/ \E h \in 1..MaxPtrs : PtrT(h)
    \/ \E h \in 1..MaxPtrs : PtrConj(h, TRUE)
    \/ \E h \in 1..MaxPtrs : UniConj(h)
    \/ \E op \in MetaOps, a \in 1..MaxPtrs, b \in {PyVal("int", 3)} : PtrIOp(op, a, b)
    \/ \E op \in MetaOps, a \in 1..MaxPtrs, b \in {PyVal("int", 3)} : UniIOp(op, a, b)
    \/ \E h \in 1..MaxPtrs : PtrZero(h, NoneArg)
    \/ \E h \in 1..MaxPtrs : PtrToDevice(h, 1, NoneArg)
    \/ \E h \in 1..MaxPtrs : PtrToHost(h, None, NoneArg)
    \/ \E src, dst \in 1..MaxPtrs : D2d(src, dst, NoneArg)

SpecMeta == InitPtr /\ [][NextMeta]_vars

\* --------------------------------------------- the sample with Streams
\* The device runs the operation at the head of a queue of a context that
\* exists; the work of a destroyed context is never run.
Run(k, q) ==
    /\ status[k] = "live"
    /\ queues[k][q] # <<>>
    /\ data' = Exec(data, Head(queues[k][q]))
    /\ queues' = [queues EXCEPT ![k][q] = Tail(@)]
    /\ UNCHANGED <<status, id, context, pinned_arrs, streams, devices, layout, ptrs,
                   ctxStack, ctxDestroyed, heap, create_pushes, pc, views, calls, ret>>

\* The frame of a statement of the loop: the s-th Stream goes on to its next
\* statement, the call c is enqueued on the queue it names.
SampleIssue(k, s, at, op, c) ==
    /\ status[k] = "live"
    /\ s \in DOMAIN streams[k]
    /\ pc[s] = at
    /\ pc' = [pc EXCEPT ![s] = at + 1]
    /\ queues' = Enqueue(queues, k, c)
    /\ calls' = <<c>>
    /\ ret' = Ret(op, k, FALSE, 0, <<s>>)
    /\ UNCHANGED <<status, id, context, pinned_arrs, streams, devices, layout, ptrs,
                   ctxStack, ctxDestroyed, heap, create_pushes, data, views>>

\* s.memcpy_h2d_async(s.a, a[stream_id])
SampleH2dA(k, s) ==
    SampleIssue(k, s, 0, "memcpy_h2d_async",
                Stream_memcpy_h2d_async(streams[k][s], DevA(s), HostA(s), Cur(ctxStack)))

\* s.memcpy_h2d_async(s.b, b[stream_id])
SampleH2dB(k, s) ==
    SampleIssue(k, s, 1, "memcpy_h2d_async",
                Stream_memcpy_h2d_async(streams[k][s], DevB(s), HostB(s), Cur(ctxStack)))

\* s.cublas.axpy(n, alpha, s.a, s.b)
SampleAxpy(k, s) ==
    SampleIssue(k, s, 2, "cublas.axpy",
                Stream_cublas("axpy", streams[k][s], <<DevA(s), DevB(s)>>, Cur(ctxStack)))

\* s.cublas.scal(n, alpha, s.b)
SampleScal(k, s) ==
    SampleIssue(k, s, 3, "cublas.scal",
                Stream_cublas("scal", streams[k][s], <<DevB(s)>>, Cur(ctxStack)))

\* s.memcpy_d2h_async(c[stream_id], s.b)
SampleD2h(k, s) ==
    SampleIssue(k, s, 4, "memcpy_d2h_async",
                Stream_memcpy_d2h_async(streams[k][s], HostC(s), DevB(s), Cur(ctxStack)))

\* nrms[stream_id] = s.cublas.nrm2(n, s.b, dtype='f4')
SampleNrm2(k, s) ==
    SampleIssue(k, s, 5, "cublas.nrm2",
                Stream_cublas("nrm2", streams[k][s], <<DevB(s), HostNrm(s)>>, Cur(ctxStack)))

\* The statement after the last of the loop body.
Synced == 7

\* s.sync(): Stream.sync returns when the queue of the Stream is empty.
SampleSync(k, s) ==
    /\ status[k] = "live"
    /\ s \in DOMAIN streams[k]
    /\ pc[s] = Synced - 1
    /\ cu_sync_stream_returns(queues, k, StreamPtr(streams[k][s]))
    /\ pc' = [pc EXCEPT ![s] = Synced]
    /\ calls' = <<Call("cu_sync_stream", StreamPtr(streams[k][s]), None, None, Cur(ctxStack))>>
    /\ ret' = Ret("Stream.sync", k, FALSE, 0, <<s>>)
    /\ UNCHANGED <<status, id, context, pinned_arrs, streams, devices, layout, ptrs,
                   ctxStack, ctxDestroyed, heap, create_pushes, queues, data, views>>

\* The sample: a Device with nstreams Streams, the statements of the loop for
\* each Stream in any order between the Streams, the device running the
\* queues in any order, and the exit of the with block, which an exception
\* can bring on at any statement.  A second Device may be constructed.
NextStreams ==
    \/ NewDevice(1, 0, nstreams)
    \/ NewDevice(2, 1, 0)
    \/ \E s \in 1..nstreams : SampleH2dA(1, s)
    \/ \E s \in 1..nstreams : SampleH2dB(1, s)
    \/ \E s \in 1..nstreams : SampleAxpy(1, s)
    \/ \E s \in 1..nstreams : SampleScal(1, s)
    \/ \E s \in 1..nstreams : SampleD2h(1, s)
    \/ \E s \in 1..nstreams : SampleNrm2(1, s)
    \/ \E s \in 1..nstreams : SampleSync(1, s)
    \/ \E k \in Dev, q \in QueueIds : Run(k, q)
    \/ Exit(1)

SpecStreams == InitCtx /\ [][NextStreams]_vars

\* A program that holds a Devices container of Devices without Streams and
\* tears its members down, directly and through the container, any number of
\* times.
NextDown ==
    \/ \E ids \in IntLists(DeviceIds, NumDev) : NewDevices(PyList(ids), PyInt(0))
    \/ DevicesExit
    \/ \E i \in DOMAIN devices : Exit(devices[i])
    \/ \E i \in DOMAIN devices : SetContext(devices[i])
    \/ \E i \in DOMAIN devices : Sync(devices[i])

SpecDown == InitCtx /\ [][NextDown]_vars

ViewShapes == {<<2, 2, 2>>}

\* A program that constructs device handles and a double-pointer view over
\* one of them, and releases handles and view in any order, any number of
\* times.
NextView ==
    \/ \E shape \in ViewShapes, ptr \in Addrs : NewPtr("Device_Ptr", shape, "f4", ptr)
    \/ \E h \in 1..MaxPtrs, ptr \in Addrs :
           /\ views = <<>>
           /\ NewDblPtr(h, 2, 2, ptr)
    \/ \E h \in 1..MaxPtrs : PtrExit(h)
    \/ \E v \in 1..MaxPtrs : DblPtrExit(v)

SpecView == InitPtr /\ [][NextView]_vars

\* ---------------------------------------------------------------- claims
Range(f) == {f[i] : i \in DOMAIN f}

\* The function and the argument of each native call, in order.
FnArgs(cs) == [i \in DOMAIN cs |-> <<cs[i].fn, cs[i].arg>>]

\* The arrays of the native unpin calls, in order.
Unpinned(cs) ==
    LET u == SelectSeq(cs, LAMBDA c : c.fn = "cu_memunpin")
    IN  [i \in DOMAIN u |-> u[i].arg]

NoDuplicates(reg) == \A i, j \in DOMAIN reg : i # j => reg[i] # reg[j]

\* The least index at which the array is in the registry.
FirstIndex(reg, arr) ==
    CHOOSE i \in DOMAIN reg : reg[i] = arr /\ \A j \in 1..(i - 1) : reg[j] # arr

\* C1: Device.__exit__ of a constructed Device issues, in this order: the sync
\* of the default queue, one unpin per registered array, the destruction of
\* every Stream of the Device, the destruction of the context.
C1_TeardownOrder ==
    [][\A k \in Dev :
        (ret'.op = "__exit__" /\ ret'.dev = k /\ status[k] = "live") =>
            FnArgs(calls') =
                <<<<"cu_sync_device", None>>>>
                \o [i \in DOMAIN pinned_arrs[k] |-> <<"cu_memunpin", pinned_arrs[k][i]>>]
                \o [i \in DOMAIN streams[k] |-> <<"cu_stream_destroy", streams[k][i].id>>]
                \o <<<<"cu_context_destroy", k>>>>]_vars

\* C2: cuCtx.__call__ leaves the context stack as deep as it found it, when
\* the method returns and when the method raises.
C2_CallBalanced ==
    [][ret'.op = "__call__" => Len(ctxStack') = Len(ctxStack)]_vars

\* C3: the native destruction of a context is only issued when the context is
\* not on the stack (each of its pushes was matched by a pop).  Stated for a
\* driver whose context creation pushes nothing, so that every push counted is
\* one of push or set_context.
C3_NoDestroyWhilePushed ==
    [][\A i \in DOMAIN calls' :
        (calls'[i].fn = "cu_context_destroy" /\ ~create_pushes)
            => Pushed(ctxStack, calls'[i].arg) = 0]_vars

\* C4: whatever the number of __exit__ calls on a memory handle, the native
\* free is issued at most once for it.
C4_FreeOnce == \A h \in DOMAIN ptrs : ptrs[h].frees <= 1

\* C5: no array is twice in the registry of pinned arrays, and host_pin of an
\* array that is registered fails or leaves the registry as it is.
C5_RegisteredOnce ==
    [][\A k \in Dev :
        /\ NoDuplicates(pinned_arrs'[k])
        /\ (ret'.op = "host_pin" /\ ret'.dev = k /\ ret'.args[1] \in Range(pinned_arrs[k]))
               => (ret'.raised \/ pinned_arrs'[k] = pinned_arrs[k])]_vars

\* C6: host_unpin of an array that is registered removes the first entry that
\* is the array and no other, keeps the other entries in their order, and
\* issues exactly one native unpin, of that array.
C6_UnpinRemovesFirst ==
    [][\A k \in Dev :
        (/\ ret'.op = "host_unpin" /\ ret'.dev = k /\ status[k] = "live"
         /\ ret'.args[1] \in Range(pinned_arrs[k])) =>
            LET reg == pinned_arrs[k]
                arr == ret'.args[1]
                i   == FirstIndex(reg, arr)
            IN  /\ pinned_arrs'[k] =
                       [j \in 1..(Len(reg) - 1) |-> IF j < i THEN reg[j] ELSE reg[j + 1]]
                /\ FnArgs(calls') = <<<<"cu_memunpin", arr>>>>
                /\ ~ret'.raised]_vars

\* C6 happens: host_unpin has removed one of two entries of an array that
\* stood behind another array, and the registry keeps the other two.
C6_Witness ==
    /\ ret.op = "host_unpin" /\ status[1] = "live" /\ ~ret.raised
    /\ FnArgs(calls) = <<<<"cu_memunpin", ret.args[1]>>>>
    /\ Len(pinned_arrs[1]) = 2
    /\ pinned_arrs[1][1] # ret.args[1]
    /\ pinned_arrs[1][2] = ret.args[1]

\* C7: host_unpin of an array that is not registered reports it, does not
\* raise, issues no native unpin and leaves the registry as it is, the empty
\* registry included.
C7_UnpinNotFound ==
    [][\A k \in Dev :
        (/\ ret'.op = "host_unpin" /\ ret'.dev = k /\ status[k] = "live"
         /\ ret'.args[1] \notin Range(pinned_arrs[k])) =>
            /\ ret'.reports >= 1
            /\ ~ret'.raised
            /\ calls' = <<>>
            /\ pinned_arrs'[k] = pinned_arrs[k]]_vars

\* C8: the unpin loop of Device.__exit__, started with N entries, issues one
\* native unpin per entry, in the order of registration (none when N = 0), and
\* ends with the registry empty.
C8_UnpinAll ==
    [][\A k \in Dev :
        (ret'.op = "__exit__" /\ ret'.dev = k /\ status[k] = "live") =>
            /\ Unpinned(calls') = pinned_arrs[k]
            /\ ret'.args = <<>>
            /\ pinned_arrs'[k] = <<>>]_vars

\* C8 happens: __exit__ has unpinned three entries, two of them the same array.
C8_Witness ==
    /\ ret.op = "__exit__" /\ ~ret.raised /\ ret.args = <<>>
    /\ Len(Unpinned(calls)) = 3
    /\ Unpinned(calls)[1] = Unpinned(calls)[3]
    /\ Unpinned(calls)[1] # Unpinned(calls)[2]

\* C9: after require_streamable returns, each array the caller passed is in
\* the registry and is C-contiguous.
C9_CallerArraysStreamable ==
    \A k \in Dev :
        (ret.op = "require_streamable" /\ ret.dev = k /\ ~ret.raised /\ status[k] = "live") =>
            \A i \in DOMAIN ret.args :
                ret.args[i] \in Range(pinned_arrs[k]) /\ layout[ret.args[i]] # "F"

\* C10: in a Devices container of two or more Devices, sync and __exit__ of
\* a Device, called directly or through the container, issue their native
\* calls while the context of that Device is the current one, and leave the
\* context stack as they found it.
C10_OwnContextCurrent ==
    [][(ret'.op \in {"sync", "__exit__", "Devices.sync", "Devices.__exit__"}
        /\ Len(devices) >= 2) =>
        /\ \A i \in DOMAIN calls' : calls'[i].cur = calls'[i].dev
        /\ ctxStack' = ctxStack]_vars

\* The native calls of the sequence cs that are calls of fn.
CallsOf(cs, fn) == {i \in DOMAIN cs : cs[i].fn = fn}

\* C11: when the teardown of a Device destroys its context, every allocation
\* made through that Device has been released: no address it allocated is
\* still allocated.  (In SpecMem every allocation is made through the Device.)
C11_ReleasedBeforeDestroy ==
    [][\A k \in Dev :
        (/\ ret'.op = "__exit__" /\ ret'.dev = k /\ status[k] = "live"
         /\ CallsOf(calls', "cu_context_destroy") # {}) =>
            heap = {}]_vars

\* C20: allocating through the Device with a scalar fill succeeds and returns
\* a handle of the requested shape whose whole allocation was filled from a
\* host array of that scalar, so that copying it to the host yields the scalar
\* in every element.
C20_MallocScalarFill ==
    (ret.op = "malloc" /\ ret.args[3] \in Scalars) =>
        /\ ~ret.raised
        /\ ptrs # <<>>
        /\ ptrs[Len(ptrs)].shape = ret.args[1]
        /\ \E i \in CallsOf(calls, "cu_memcpy_h2d") : calls[i].nbytes = ptrs[Len(ptrs)].nbytes

\* C12: a failure in one teardown step does not prevent the later steps.  For
\* the teardown of a Devices container: when the __exit__ of one member raises,
\* every later member is still torn down, so after Devices.__exit__ every
\* member is torn down and its context destroyed.  (Device.__exit__ has the
\* same shape: its steps are consecutive statements with no handler.)
C12_LaterStepsRun ==
    [][ret'.op = "Devices.__exit__" =>
        \A i \in DOMAIN devices :
            /\ status'[devices[i]] = "exited"
            /\ context[devices[i]] # None => context[devices[i]] \in ctxDestroyed']_vars

\* The source handle, the destination handle and the byte count argument of
\* the last d2d or d2d_async call.
CopySrc == ptrs[ret.args[1]]
CopyDst == ptrs[ret.args[2]]
CopyReq == ret.args[3]

\* C13: d2d and d2d_async resolve the byte count to min(src.nbytes, requested),
\* to src.nbytes when none is requested; they raise and issue no native copy
\* when the resolved count exceeds dst.nbytes, and otherwise issue one native
\* copy of the resolved count, so no native copy exceeds dst.nbytes.
C13_ResolvedCount ==
    ret.op \in {"d2d", "d2d_async"} =>
        LET n == IF CopyReq = NoneArg THEN CopySrc.nbytes ELSE Min(CopySrc.nbytes, CopyReq[1])
        IN  /\ ret.raised <=> n > CopyDst.nbytes
            /\ ret.raised => calls = <<>>
            /\ ~ret.raised => Len(calls) = 1 /\ calls[1].nbytes = n
            /\ \A i \in DOMAIN calls : calls[i].nbytes <= CopyDst.nbytes

\* C14: a d2d call with an explicitly requested byte count between 0 and
\* min(src.nbytes, dst.nbytes) succeeds and copies exactly that many bytes
\* from src to dst.
C14_CopiesExactly ==
    (/\ ret.op = "d2d" /\ CopyReq # NoneArg
     /\ CopyReq[1] <= Min(CopySrc.nbytes, CopyDst.nbytes)) =>
        /\ ~ret.raised
        /\ Len(calls) = 1
        /\ calls[1].arg = <<CopySrc.ptr, CopyDst.ptr>>
        /\ calls[1].nbytes = CopyReq[1]

\* C15 as stated: a d2d call that requests more bytes than dst.nbytes fails
\* and copies nothing, whatever the size of src.
C15_TooLargeRequestFails ==
    (ret.op = "d2d" /\ CopyReq # NoneArg /\ CopyReq[1] > CopyDst.nbytes) =>
        ret.raised /\ calls = <<>>

\* C15 amended: a d2d call that requests more bytes than dst.nbytes fails and
\* copies nothing when src is larger than dst too; when src fits in dst the
\* count is clamped to src.nbytes and the copy of src.nbytes bytes succeeds.
C15_TooLargeRequestClamped ==
    (ret.op = "d2d" /\ CopyReq # NoneArg /\ CopyReq[1] > CopyDst.nbytes) =>
        IF CopySrc.nbytes > CopyDst.nbytes
        THEN ret.raised /\ calls = <<>>
        ELSE ~ret.raised /\ Len(calls) = 1 /\ calls[1].nbytes = CopySrc.nbytes

\* C15 witness: a d2d call that requested more than dst.nbytes from a src
\* larger than dst has raised.
C15_Witness ==
    /\ ret.op = "d2d" /\ CopyReq # NoneArg /\ CopyReq[1] > CopyDst.nbytes
    /\ CopySrc.nbytes > CopyDst.nbytes
    /\ ret.raised

\* C16: T on a handle, device or unified, whose shape does not have exactly
\* two dimensions raises, issues no native call and leaves the shape as it
\* was; on a handle of shape (r, c) it succeeds and the shape becomes (c, r).
C16_TransposeRank ==
    [][\A h \in DOMAIN ptrs :
        (ret'.op = "T" /\ ret'.args[1] = h) =>
            IF Len(ptrs[h].shape) = 2
            THEN ~ret'.raised /\ ptrs'[h].shape = <<ptrs[h].shape[2], ptrs[h].shape[1]>>
            ELSE ret'.raised /\ calls' = <<>> /\ ptrs'[h].shape = ptrs[h].shape]_vars

\* C17: conj on a Device_Ptr issues the native conjugate on the handle exactly
\* when its dtype is complex, c8 or c16; on a real dtype it issues no call.
C17_ConjComplex ==
    ret.op = "conj" =>
        LET h == ptrs[ret.args[1]]
        IN  IF h.dtype \in {"c8", "c16"}
            THEN Len(calls) = 1 /\ calls[1].fn = "cu_conj" /\ calls[1].arg = h.ptr
            ELSE calls = <<>>

\* C18: in-place add, subtract, multiply or divide of the Device_Ptr A by a
\* Device_Ptr B of another shape or dtype warns, does not raise, and runs the
\* native kernel over min(A.size, B.size) elements.
C18_SmallerExtent ==
    (/\ ret.op \in {"i" \o op : op \in IOps}
     /\ ret.args[2] = "Device_Ptr" /\ ret.args[4]) =>
        /\ ~ret.raised
        /\ ret.reports >= 1
        /\ Len(calls) = 1
        /\ calls[1].nbytes = Min(ptrs[ret.args[1]].size, ret.args[3])

\* C19: constructing a Device_Ptr with a list, a host array or another
\* Device_Ptr as fill whose byte size differs from the size of the new handle
\* does not raise, and the copy of the fill transfers min(source bytes,
\* destination bytes) bytes.
C19_FillNeverRaises ==
    LET nbytes == reduce_mul(ret.args[1]) * itemsize(ret.args[2])
    IN  (/\ ret.op = "Device_Ptr.__init__"
         /\ ret.args[3] \in {"list", "ndarray", "Device_Ptr"}
         /\ ret.args[4] # nbytes) =>
            /\ ~ret.raised
            /\ Len(calls) = 2
            /\ calls[2].nbytes = Min(ret.args[4], nbytes)

\* C21: a handle returned by the malloc of a Stream, called with no stream
\* argument, has the native handle of that Stream as its stream: the call
\* returns a handle, and the stream of the handle is the Stream's.
C21_StreamAffinity ==
    ret.op = "Stream.malloc" =>
        /\ ~ret.raised
        /\ ptrs # <<>>
        /\ ptrs[Len(ptrs)].stream = StreamPtr(streams[ret.dev][ret.args[1]])

\* The two arguments of the last Devices(device_ids, n_streams) call.
SetIds     == ret.args[1]
SetStreams == ret.args[2]

\* C22: Devices(ids, stream counts) with two sequences of different lengths
\* raises and constructs no Device; it never returns a container with fewer
\* members than ids.
C22_LengthMismatchFails ==
    (/\ ret.op = "Devices.__init__" /\ SetIds.list /\ SetStreams.list
     /\ Len(SetIds.items) # Len(SetStreams.items)) =>
        /\ ret.raised
        /\ devices = <<>>
        /\ \A k \in Dev : status[k] = "none"

\* C23: Devices(ids, n) with one stream count n and ids one integer or a
\* sequence of k integers returns a container of one Device, or of k Devices
\* in the order of ids, each with its id and with n Streams.
C23_SingleIdOrSequence ==
    (ret.op = "Devices.__init__" /\ ~SetStreams.list /\ SetIds.items # <<>>) =>
        /\ ~ret.raised
        /\ Len(devices) = Len(SetIds.items)
        /\ \A i \in DOMAIN devices :
            /\ status[devices[i]] = "live"
            /\ id[devices[i]] = SetIds.items[i]
            /\ Len(streams[devices[i]]) = SetStreams.items[1]

\* C27: right after Device(device_id, n) the Device has exactly n Streams, the
\* i-th with ordinal i - 1 and bound to this Device, its registry of pinned
\* arrays is empty, and its context exists and is not on the context stack.
C27_AfterConstruction ==
    ret.op = "__init__" =>
        LET k == ret.dev
        IN  /\ Len(streams[k]) = ret.args[2]
            /\ \A i \in DOMAIN streams[k] : streams[k][i] = [device |-> k, id |-> i - 1]
            /\ pinned_arrs[k] = <<>>
            /\ context[k] # None
            /\ context[k] \notin ctxDestroyed
            /\ Pushed(ctxStack, context[k]) = 0

\* The asynchronous operations of a handle.
AsyncOps == {"to_device_async", "to_host_async", "zero_async", "d2d_async"}

\* C28: every asynchronous operation of a handle (to_device_async,
\* to_host_async, zero_async, d2d_async) enqueues its one native call on the
\* stream given explicitly, and with none given on the affinity stream of the
\* handle (of the source for d2d_async); no handle, and so no affinity stream,
\* is changed by the operation.
C28_AsyncStream ==
    [][(ret'.op \in AsyncOps) =>
          /\ ptrs' = ptrs
          /\ ~ret'.raised =>
                /\ Len(calls') = 1
                /\ calls'[1].dev = IF ret'.args[4] # None THEN ret'.args[4]
                                   ELSE ptrs[ret'.args[1]].stream]_vars

\* C28 witness: an asynchronous operation was enqueued on a stream given
\* explicitly, on a handle whose affinity stream is another one.
C28_Witness ==
    /\ ret.op \in AsyncOps
    /\ ~ret.raised
    /\ ret.args[4] # None
    /\ ptrs[ret.args[1]].stream \notin {None, ret.args[4]}
    /\ calls[1].dev = ret.args[4]

\* C29: to_host_async with no destination array copies into the newly
\* allocated host array and returns that same array.
C29_FreshArrayFilled ==
    (ret.op = "to_host_async" /\ ret.args[2] = None) =>
        /\ ret.args[5] # None
        /\ Len(calls) = 1
        /\ calls[1].arg = ret.args[5]

\* C30: T applied twice in a row to a handle of two dimensions restores the
\* shape the handle had before the first of the two, whether square or not,
\* and leaves size and nbytes at the values of the construction.
C30_TransposeTwice ==
    (ret.op = "T" /\ ~ret.raised /\ ret.args[3] # <<>> /\ Len(ret.args[3]) = 2) =>
        /\ ptrs[ret.args[1]].shape = ret.args[3]
        /\ ptrs[ret.args[1]].size = reduce_mul(ret.args[3])
        /\ ptrs[ret.args[1]].nbytes = reduce_mul(ret.args[3]) * itemsize(ptrs[ret.args[1]].dtype)

\* C30 witness: the second of two T in a row has returned on a Device_Ptr of
\* a shape that is not square.
C30_Witness ==
    /\ ret.op = "T" /\ ~ret.raised
    /\ ret.args[3] # <<>>
    /\ Len(ret.args[3]) = 2
    /\ ret.args[3][1] # ret.args[3][2]
    /\ ptrs[ret.args[1]].kind = "Device_Ptr"

\* The two tuples hold the same entries, each as many times.
IsPermutation(a, b) ==
    /\ Len(a) = Len(b)
    /\ \A x \in Range(a) \cup Range(b) :
           Cardinality({i \in DOMAIN a : a[i] = x}) = Cardinality({i \in DOMAIN b : b[i] = x})

\* C24: whatever operation is applied to the handles, every handle keeps the
\* nbytes and the size of its construction, nbytes = size * itemsize and the
\* product of the shape is the size; the shape of a handle changes only in a
\* T, and then into a permutation of itself.
C24_MetadataStable ==
    [][\A h \in DOMAIN ptrs' :
          /\ ptrs'[h].nbytes = ptrs'[h].size * itemsize(ptrs'[h].dtype)
          /\ reduce_mul(ptrs'[h].shape) = ptrs'[h].size
          /\ h \in DOMAIN ptrs =>
                /\ ptrs'[h].nbytes = ptrs[h].nbytes
                /\ ptrs'[h].size = ptrs[h].size
                /\ ptrs'[h].shape # ptrs[h].shape =>
                      /\ ret'.op = "T"
                      /\ ret'.args[1] = h
                      /\ IsPermutation(ptrs'[h].shape, ptrs[h].shape)]_vars

\* C24 witness: a T has changed the shape of a Unified_Ptr, and nbytes is
\* still the product of the shape before times the itemsize.
C24_Witness ==
    /\ ret.op = "T" /\ ~ret.raised
    /\ ptrs[ret.args[1]].kind = "Unified_Ptr"
    /\ ptrs[ret.args[1]].shape # ret.args[2]
    /\ ptrs[ret.args[1]].nbytes = reduce_mul(ret.args[2]) * itemsize(ptrs[ret.args[1]].dtype)

\* C25: when the teardown of a Device destroys its context, no operation
\* enqueued on a Stream of that Device is still pending: the queue of every
\* Stream of the Device is empty.
C25_NoStreamWorkPending ==
    [][\A k \in Dev :
        (/\ ret'.op = "__exit__" /\ ret'.dev = k /\ status[k] = "live"
         /\ CallsOf(calls', "cu_context_destroy") # {}) =>
            \A s \in DOMAIN streams[k] : queues[k][StreamPtr(streams[k][s])] = <<>>]_vars

Unreleased == {h \in DOMAIN ptrs : ptrs[h].frees = 0}

\* C31: after any sequence of allocations through the allocator of a Device
\* or of a Stream and of releases, the native allocations not yet freed are as
\* many as the handles not yet released.
C31_AllocationsMatchHandles == Cardinality(heap) = Cardinality(Unreleased)

\* C32: when the construction of a handle fails after its native allocation
\* was made (a fill of an unsupported type, a fill handle larger than the new
\* handle), the address it allocated is not allocated any more when the error
\* reaches the caller.
C32_FailedConstructionFrees ==
    (ret.op = "Device_Ptr.__init__" /\ ret.raised) =>
        \A i \in CallsOf(calls, "cu_malloc") : calls[i].arg \notin heap

\* The copies between a handle and a host array.
HostCopies == {"to_host", "to_device", "to_host_async", "to_device_async"}

\* C33: a copy between a handle and a host array the caller supplies passes
\* to the native copy a byte count that is at most the size of the handle and
\* at most the size of the host array.
C33_WithinHostArray ==
    (ret.op \in HostCopies /\ ret.args[2] # None) =>
        \A i \in DOMAIN calls : calls[i].nbytes <= Min(ptrs[ret.args[1]].nbytes, HostBytes)

\* C34: host_unpin reports "not found" only for an array that is in no entry
\* of the registry: for an array that is registered, at whatever position, the
\* call removes an entry and reports nothing.
C34_ReportOnlyWhenAbsent ==
    [][\A k \in Dev :
        (/\ ret'.op = "host_unpin" /\ ret'.dev = k /\ status[k] = "live"
         /\ ret'.args[1] \in Range(pinned_arrs[k])) =>
            /\ Len(pinned_arrs'[k]) = Len(pinned_arrs[k]) - 1
            /\ ret'.reports = 0]_vars

\* The operations of a Device that issue a native call.
DriverOps == {"sync", "host_pin", "set_context", "__exit__"}

\* C35: on a Device that was torn down, every operation that would issue a
\* native call fails and issues none.
C35_NoCallsAfterTeardown ==
    [][\A k \in Dev :
        (status[k] = "exited" /\ ret'.dev = k /\ ret'.op \in DriverOps) =>
            /\ ret'.raised
            /\ calls' = <<>>]_vars

\* C36: however often a Device is torn down, directly or through its
\* container, its native context is destroyed once, by the first teardown: a
\* teardown of a constructed Device issues the destroy of its context, and no
\* handler issues the destroy of a context that was destroyed before, or the
\* destroy of one context twice.
C36_DestroyedOnce ==
    [][/\ \A i \in CallsOf(calls', "cu_context_destroy") :
             /\ calls'[i].arg \notin ctxDestroyed
             /\ \A j \in CallsOf(calls', "cu_context_destroy") :
                    calls'[j].arg = calls'[i].arg => j = i
       /\ \A k \in Dev :
             (ret'.op = "__exit__" /\ ret'.dev = k /\ status[k] = "live") =>
                 \E i \in CallsOf(calls', "cu_context_destroy") : calls'[i].arg = k]_vars

\* C36 witness: a Device of a container of two was torn down a second time,
\* after its context was destroyed, and the second teardown issued no destroy.
C36_Witness ==
    /\ ret.op = "__exit__"
    /\ Len(devices) = 2
    /\ status[ret.dev] = "exited"
    /\ ret.dev \in ctxDestroyed
    /\ ret.raised
    /\ CallsOf(calls, "cu_context_destroy") = {}

\* C37: after any sequence of operations on a Unified_Ptr, its attribute h
\* is an array view of its allocation, and in-place arithmetic with a scalar
\* returns.
C37_HostViewKept ==
    /\ \A h \in DOMAIN ptrs : ptrs[h].kind = "Unified_Ptr" => ptrs[h].h = "array"
    /\ (/\ ret.op \in {"i" \o op : op \in IOps}
        /\ ptrs[ret.args[1]].kind = "Unified_Ptr"
        /\ ret.args[2] = "int") => ~ret.raised

\* C38: the release of a double-pointer view frees the allocation of the view
\* and leaves the allocation of the Device_Ptr it was built over as it is, and
\* the release of that Device_Ptr leaves the allocation of the view as it is:
\* the two have different addresses, and each release frees the address of the
\* object released.
C38_ViewFreesOwn ==
    [][\A v \in DOMAIN views :
          LET u == ptrs[views[v].over]
          IN  /\ views[v].ptr # u.ptr
              /\ views'[v].frees # views[v].frees =>
                    /\ FnArgs(calls') = <<<<"cu_free", views[v].ptr>>>>
                    /\ (u.ptr \in heap') = (u.ptr \in heap)
              /\ ptrs'[views[v].over].frees # u.frees =>
                    /\ FnArgs(calls') = <<<<"cu_free", u.ptr>>>>
                    /\ (views[v].ptr \in heap') = (views[v].ptr \in heap)]_vars

\* C38 witness: a view was released after the handle it was built over.
C38_Witness ==
    /\ ret.op = "DblPtr.__exit__"
    /\ views[ret.args[1]].frees = 1
    /\ ptrs[views[ret.args[1]].over].frees = 1
    /\ views[ret.args[1]].ptr \notin heap

====
